---- MODULE Spec2Model ----
(***************************************************************************)
(* Model of the scenario orchestrator of src/agent_app/app.py and of the   *)
(* simulated tool backend of src/tool_service/app.py.                      *)
(*                                                                         *)
(* One /run or /stream request is modelled from the moment the handler is  *)
(* entered.  Tasks are the asyncio tasks of the request: the handler       *)
(* itself (Main; for /stream the background task that runs the fan-out     *)
(* driver), the response generator of /stream (Gen) and the sibling tasks  *)
(* 0..fanout-1 that fan-out, retry-storm and DAG create.  An action is one *)
(* synchronous segment of a task, from one suspension point (await of a    *)
(* tool call, a sleep, a semaphore wait, a gather, a yield) to the next,   *)
(* as the cooperative scheduler runs it.  The backend's handler has a      *)
(* specification of its own, SpecTool.                                     *)
(***************************************************************************)
EXTENDS Integers, Sequences, FiniteSets, TLC

\* ---------------------------------------------------------------- bounds
MaxFanout == 3
MaxConc == 2
MaxRetries == 7
MaxCalls == 8
MaxDepth == 3
MaxSteps == 3
MaxChunks == 2
MaxChunkKb == 2
MaxDurationS == 1
MaxToolDelayMs == 55

\* ------------------------------------------------------ program constants
TimeoutMs == 30000
InitialBackoffMs == 20
MaxBackoffMs == 500
DefaultFanout == 100
DefaultConcurrency == 20
DefaultDelayMs == 80
DefaultDepth == 60
DefaultErrorPct == 10
DefaultMaxRetries == 3
DefaultMaxSteps == 10
DefaultRagChunks == 5
DefaultRagChunkKb == 2
HumanToolDelayMs == 100
StreamConcurrency == 10
TickMs == 50
Chunks == 50
MinPerUs == 1000
ToolDefaultDelayMs == 80
SlowDelayMs == TimeoutMs + 1000

Scenarios == {"fanout", "chain", "retry", "dag", "react", "human", "rag"}
Delays == {DefaultDelayMs, SlowDelayMs}
ErrorPcts == {0, 50, 100}

Main == -1
Gen == -2
NoSpan == <<>>
Min(a, b) == IF a < b THEN a ELSE b
Max(a, b) == IF a > b THEN a ELSE b

VARIABLES req, backend, endpoint, gen, tool, mainPc, mainI, mainHist, wk, sem, waiters, client, spans, ctx, result

vars == <<req, backend, endpoint, gen, tool, mainPc, mainI, mainHist, wk, sem, waiters, client, spans, ctx, result>>

\* ------------------------------------------------------------ span emitter
\* tracer state: the spans created so far and each task's current span
Tr == [spans |-> spans, ctx |-> ctx]

NoAttrs == [idx |-> -1, attempt |-> -1, size_kb |-> -1]

\* ids are unique per trace: the k-th span a task starts is <<task, k>>
NewId(tr, t) == <<t, Cardinality({id \in DOMAIN tr.spans : id[1] = t}) + 1>>

\* mutant: one ambient current span, the handler's, read by every task
CurrentAmbient(tr, t) == IF Main \in DOMAIN tr.ctx THEN tr.ctx[Main] ELSE tr.ctx[t]

\* the span active on task t's own execution path (a contextvar, per task)
Current(tr, t) == tr.ctx[t]

\* tracer.start_as_current_span(name, attributes=_attrs(agent, kind, **extra)): __enter__
Start(tr, t, name, kind, attrs) ==
    LET id == NewId(tr, t) IN
    [spans |-> tr.spans @@ (id :> [name |-> name, kind |-> kind, task |-> t,
                                   parent |-> Current(tr, t), open |-> TRUE,
                                   closes |-> 0, attrs |-> attrs, prompt |-> -1,
                                   content |-> -1]),
     ctx |-> [tr.ctx EXCEPT ![t] = id]]

\* tracer.start_as_current_span: __exit__ (ends the span, restores the context)
End(tr, t) ==
    LET id == tr.ctx[t] IN
    [spans |-> [tr.spans EXCEPT ![id].open = FALSE, ![id].closes = @ + 1],
     ctx |-> [tr.ctx EXCEPT ![t] = tr.spans[id].parent]]

\* trace.get_current_span().set_attribute(...) on task t's current span
SetPrompt(tr, t, v) == [tr EXCEPT !.spans[tr.ctx[t]].prompt = v]
SetContent(tr, t, v) == [tr EXCEPT !.spans[tr.ctx[t]].content = v]

\* an exception leaving every enclosing `with` of task t down to span `stop`
RECURSIVE Unwind(_, _, _)
Unwind(tr, t, stop) ==
    IF tr.ctx[t] = stop THEN tr ELSE Unwind(End(tr, t), t, stop)

\* call_tool: the tool_call span and its attributes
StartToolCall(tr, t, attempt, payload_kb) ==
    Start(tr, t, "tool_call", "tool_call",
          [idx |-> -1, attempt |-> attempt, size_kb |-> payload_kb])

\* ------------------------------------------------------------ tool backend
\* the outcomes one backend call can have, seen from call_tool:
\* "unreachable" when no backend answers, "503" when the failure draw fires,
\* "timeout" when the backend's sleep outlasts the client's 30 s timeout,
\* "ok" otherwise
ToolOutcomes(delay_ms, error_pct, be) ==
    IF be = "down" THEN {"unreachable"}
    ELSE (IF error_pct > 0 THEN {"503"} ELSE {})
         \cup (IF error_pct < 100
               THEN (IF delay_ms > TimeoutMs THEN {"timeout"} ELSE {"ok"})
               ELSE {})

\* a request on a client that was closed under it cannot be answered
CallOutcomes(delay_ms, error_pct, cl, be) ==
    IF cl = "open" THEN ToolOutcomes(delay_ms, error_pct, be) ELSE {"closed"}

\* mutant: a failed call is swallowed and treated as a result
CallRaisesNever(o) == FALSE

\* client.get raising (timeout, transport) or r.raise_for_status() raising
CallRaises(o) == o # "ok"

\* --------------------------------------------------------- admission gate
\* mutant: the gate admits one task more than its width
SemLockedOffByOne(v, ws) == v < 0 \/ ws # <<>>

\* asyncio.Semaphore.locked()
SemLocked(v, ws) == v = 0 \/ ws # <<>>

\* mutant: a release wakes nobody
WakeNextLost(w, ws) == w

\* asyncio.Semaphore.release(): the permit goes to the first waiter, if any
WakeNext(w, ws) == IF ws # <<>> THEN [w EXCEPT ![Head(ws)].pc = "admitted"] ELSE w
SemAfterRelease(v, ws) == IF ws # <<>> THEN v ELSE v + 1
WaitersAfterRelease(ws) == IF ws # <<>> THEN Tail(ws) ELSE ws

\* ------------------------------------------------------------------- init
Request(s, f, c, d, dp, e, r, m, n, k) ==
    [scenario |-> s, fanout |-> f, concurrency |-> c, delay_ms |-> d, depth |-> dp,
     error_pct |-> e, max_retries |-> r, max_steps |-> m, rag_chunks |-> n,
     rag_chunk_size_kb |-> k]

\* the parameters a scenario does not read keep the defaults of run()
Requests ==
    { Request("fanout", f, c, d, DefaultDepth, DefaultErrorPct, DefaultMaxRetries,
              DefaultMaxSteps, DefaultRagChunks, DefaultRagChunkKb) :
        f \in 0..MaxFanout, c \in 0..MaxConc, d \in Delays }
    \cup
    { Request("chain", DefaultFanout, DefaultConcurrency, d, dp, DefaultErrorPct,
              DefaultMaxRetries, DefaultMaxSteps, DefaultRagChunks, DefaultRagChunkKb) :
        dp \in 0..MaxDepth, d \in Delays }
    \cup
    { Request("retry", x[1], c, d, DefaultDepth, e, x[2],
              DefaultMaxSteps, DefaultRagChunks, DefaultRagChunkKb) :
        x \in {y \in (0..MaxFanout) \X (0..MaxRetries) : y[1] * (y[2] + 1) <= MaxCalls},
        c \in 0..MaxConc, d \in Delays, e \in ErrorPcts }
    \cup
    { Request("dag", f, DefaultConcurrency, d, DefaultDepth, DefaultErrorPct,
              DefaultMaxRetries, DefaultMaxSteps, DefaultRagChunks, DefaultRagChunkKb) :
        f \in 0..MaxFanout, d \in Delays }
    \cup
    { Request("react", DefaultFanout, DefaultConcurrency, d, DefaultDepth, DefaultErrorPct,
              DefaultMaxRetries, m, DefaultRagChunks, DefaultRagChunkKb) :
        m \in 0..MaxSteps, d \in Delays }
    \cup
    { Request("human", DefaultFanout, DefaultConcurrency, DefaultDelayMs, DefaultDepth,
              DefaultErrorPct, DefaultMaxRetries, DefaultMaxSteps, DefaultRagChunks,
              DefaultRagChunkKb) }
    \cup
    { Request("rag", DefaultFanout, DefaultConcurrency, d, DefaultDepth, DefaultErrorPct,
              DefaultMaxRetries, DefaultMaxSteps, n, k) :
        n \in 0..MaxChunks, k \in 0..MaxChunkKb, d \in Delays }

\* a scenario value outside the Literal of run()'s signature
UnknownRequest ==
    Request("bogus", DefaultFanout, DefaultConcurrency, DefaultDelayMs, DefaultDepth,
            DefaultErrorPct, DefaultMaxRetries, DefaultMaxSteps, DefaultRagChunks,
            DefaultRagChunkKb)

\* /stream: the background run is scenario_fanout(concurrency=10,
\* fanout=background_fanout, delay_ms=tool_delay_ms)
StreamRequests ==
    { Request("fanout", f, StreamConcurrency, d, DefaultDepth, DefaultErrorPct,
              DefaultMaxRetries, DefaultMaxSteps, DefaultRagChunks, DefaultRagChunkKb) :
        f \in 0..MaxFanout, d \in Delays }

\* the response generator of /stream: its position, the token index i, the
\* elapsed time time.time() - t0 in ms, duration_s, the tokens yielded so far
NoGen == [pc |-> "none", i |-> 0, elapsed |-> 0, duration_s |-> 0, tokens |-> <<>>]

\* the backend handler when no backend request is modelled
NoTool ==
    [pc |-> "idle", delay_given |-> FALSE, delay_ms |-> 0, error_pct |-> 0, stream |-> 0,
     payload_size_kb |-> 0, d |-> 0, i |-> 0, chunks |-> <<>>, waits |-> <<>>,
     slept_us |-> 0, payload |-> -1]

NewWorker ==
    [pc |-> "new", attempt |-> 0, backoff |-> 0, hist |-> <<>>, sleeps |-> <<>>,
     ret |-> "none"]

Init ==
    /\ \/ /\ endpoint = "run"
          /\ req \in Requests \cup {UnknownRequest}
          /\ gen = NoGen
          /\ mainPc = "start"
          /\ ctx = (Main :> NoSpan)
       \/ /\ endpoint = "stream"
          /\ req \in StreamRequests
          /\ gen \in {[NoGen EXCEPT !.pc = "start", !.duration_s = s] : s \in 0..MaxDurationS}
          /\ mainPc = "none"
          /\ ctx = (Gen :> NoSpan)
    /\ tool = NoTool
    /\ backend \in {"up", "down"}
    /\ backend = "down" => req.delay_ms = DefaultDelayMs
    /\ mainI = 0
    /\ mainHist = <<>>
    /\ wk = [i \in {} |-> NewWorker]
    /\ sem = 0
    /\ waiters = <<>>
    /\ client = "none"
    /\ spans = [id \in {} |-> 0]
    /\ result = "none"

\* ------------------------------------------------------------ run handler
SetTr(tr) == spans' = tr.spans /\ ctx' = tr.ctx

\* mutant: the scenario parameter is a plain string, nothing is validated
ValidatesAny(scenario) == TRUE

\* scenario: Literal[...]: the framework validates the parameter against the
\* annotation before it calls run()
Validates(scenario) == scenario \in Scenarios

\* run(): the workflow span is entered, then the scenario is dispatched; the
\* else branch of the dispatch raises HTTPException(400) inside the span
RunBegin ==
    /\ endpoint = "run" /\ mainPc = "start"
    /\ Validates(req.scenario)
    /\ IF req.scenario \in Scenarios
       THEN /\ SetTr(Start(Tr, Main, "workflow", "workflow", NoAttrs))
            /\ mainPc' = "dispatch"
            /\ UNCHANGED result
       ELSE /\ SetTr(End(Start(Tr, Main, "workflow", "workflow", NoAttrs), Main))
            /\ mainPc' = "done"
            /\ result' = "client_error"
    /\ UNCHANGED <<req, backend, endpoint, gen, tool, mainHist, mainI, wk, sem, waiters, client>>

\* the parameter is not one of the Literal's values: the request is answered
\* with a validation error and run() is never entered
RunReject ==
    /\ endpoint = "run" /\ mainPc = "start"
    /\ ~Validates(req.scenario)
    /\ mainPc' = "done"
    /\ result' = "client_error"
    /\ UNCHANGED <<req, backend, endpoint, gen, tool, mainHist, mainI, wk, sem, waiters, client, spans, ctx>>

\* the span that is current when the handler's task starts: none for run(),
\* the token_stream span for the background task of /stream
Base == IF endpoint = "stream" THEN <<Gen, 1>> ELSE NoSpan

\* an exception leaves the driver and run(): every open span of the handler's
\* path is ended, the client context is left, the request fails
Abort(tr) ==
    /\ SetTr(Unwind(tr, Main, Base))
    /\ client' = "closed"
    /\ result' = "error"
    /\ mainPc' = "done"

\* the driver returned: the planner and workflow spans end, run() returns ok
Finish(tr) ==
    /\ SetTr(Unwind(tr, Main, Base))
    /\ result' = "ok"
    /\ mainPc' = "done"

\* mutant: checkpoint_write is called after the driver's root span was left
CheckpointOutside(tr, size_kb) ==
    /\ SetTr(Start(End(tr, Main), Main, "checkpoint", "checkpoint",
                   [idx |-> -1, attempt |-> -1, size_kb |-> size_kb]))
    /\ mainPc' = "checkpoint"

\* checkpoint_write up to its sleep
Checkpoint(tr, size_kb) ==
    /\ SetTr(Start(tr, Main, "checkpoint", "checkpoint",
                   [idx |-> -1, attempt |-> -1, size_kb |-> size_kb]))
    /\ mainPc' = "checkpoint"

\* checkpoint_write's sleep is over: the checkpoint span ends, the driver returns
CheckpointDone ==
    /\ mainPc = "checkpoint"
    /\ Finish(Tr)
    /\ UNCHANGED <<req, backend, endpoint, gen, tool, mainHist, mainI, wk, sem, waiters, client>>

\* create_task / gather: each sibling task copies the creator's context
SpawnCtx(cx, n) ==
    [t \in DOMAIN cx \cup 0..(n - 1) |-> IF t \in 0..(n - 1) THEN cx[Main] ELSE cx[t]]

\* the planner span, the gate, the client and the sibling tasks of a driver
Spawn(n, permits) ==
    LET tr == Start(Tr, Main, "planner", "planner", NoAttrs) IN
    /\ spans' = tr.spans
    /\ ctx' = SpawnCtx(tr.ctx, n)
    /\ sem' = permits
    /\ client' = "open"
    /\ wk' = [i \in 0..(n - 1) |-> NewWorker]
    /\ mainPc' = "gather"
    /\ UNCHANGED <<req, backend, endpoint, gen, tool, mainHist, mainI, waiters, result>>

\* async with sem: __aexit__ by a worker whose new record is in w
Release(w) ==
    /\ wk' = WakeNext(w, waiters)
    /\ sem' = SemAfterRelease(sem, waiters)
    /\ waiters' = WaitersAfterRelease(waiters)

\* the event loop runs the first step of every created task in creation
\* order before any awaited response or sleep is delivered
MyTurn(i) ==
    /\ i \in DOMAIN wk /\ wk[i].pc = "new"
    /\ \A j \in DOMAIN wk : j < i => wk[j].pc # "new"
Started == \A j \in DOMAIN wk : wk[j].pc # "new"

\* async with sem: __aenter__ finds the gate locked; the task waits in line
Enqueue(i) ==
    /\ waiters' = Append(waiters, i)
    /\ wk' = [wk EXCEPT ![i].pc = "waiting"]
    /\ UNCHANGED <<sem, spans, ctx>>

\* mutant: the join counts only the workers that succeeded
AllReturnedOkOnly(w) == \A i \in DOMAIN w : w[i].ret = "ok_true"

\* asyncio.gather(*tasks) without return_exceptions
AllReturned(w) == \A i \in DOMAIN w : w[i].ret \in {"ok_true", "ok_false"}
SomeRaised(w) == \E i \in DOMAIN w : w[i].ret = "raised"

\* gather raised the first exception of a sibling; the siblings keep running
GatherRaise ==
    /\ mainPc = "gather"
    /\ Started
    /\ SomeRaised(wk)
    /\ Abort(Tr)
    /\ UNCHANGED <<req, backend, endpoint, gen, tool, mainHist, mainI, wk, sem, waiters>>

\* --------------------------------------------------------------- fan-out
FanoutBegin ==
    /\ mainPc = "dispatch" /\ req.scenario = "fanout"
    /\ Spawn(req.fanout, req.concurrency)

\* the record of a sibling whose single tool call ended with outcome o
Returned(w, i, o) ==
    [w EXCEPT ![i].pc = IF CallRaises(o) THEN "failed" ELSE "done",
              ![i].ret = IF CallRaises(o) THEN "raised" ELSE "ok_true",
              ![i].hist = Append(@, o)]

\* worker span, then call_tool up to its request
FanoutSpans(i) ==
    StartToolCall(Start(Tr, i, "worker", "worker",
                        [idx |-> i, attempt |-> -1, size_kb |-> -1]), i, 0, 0)

\* first step of one(i): through the free gate and up to the request, or into
\* the line of waiters
FanoutStart(i) ==
    /\ MyTurn(i) /\ req.scenario = "fanout"
    /\ IF SemLocked(sem, waiters)
       THEN Enqueue(i)
       ELSE /\ sem' = sem - 1
            /\ SetTr(FanoutSpans(i))
            /\ wk' = [wk EXCEPT ![i].pc = "calling"]
            /\ waiters' = waiters
    /\ UNCHANGED <<req, backend, endpoint, gen, tool, mainHist, mainPc, mainI, client, result>>

\* one(i) woken with a permit: worker span, then call_tool up to its request;
\* on a client closed meanwhile the request raises at once
FanoutEnter(i) ==
    /\ i \in DOMAIN wk /\ wk[i].pc = "admitted" /\ req.scenario = "fanout"
    /\ IF client = "open"
       THEN /\ SetTr(FanoutSpans(i))
            /\ wk' = [wk EXCEPT ![i].pc = "calling"]
            /\ UNCHANGED <<sem, waiters>>
       ELSE /\ SetTr(End(End(FanoutSpans(i), i), i))
            /\ Release(Returned(wk, i, "closed"))
    /\ UNCHANGED <<req, backend, endpoint, gen, tool, mainHist, mainPc, mainI, client, result>>

\* the tool call of worker i returns or raises; both spans end, the permit is released
FanoutReturn(i) ==
    /\ i \in DOMAIN wk /\ wk[i].pc = "calling" /\ req.scenario = "fanout"
    /\ Started
    /\ \E o \in CallOutcomes(req.delay_ms, 0, client, backend) :
         Release(Returned(wk, i, o))
    /\ SetTr(End(End(Tr, i), i))
    /\ UNCHANGED <<req, backend, endpoint, gen, tool, mainHist, mainPc, mainI, client, result>>

\* gather returned every result: the client context is left, the checkpoint starts
FanoutJoin ==
    /\ mainPc = "gather" /\ req.scenario = "fanout"
    /\ AllReturned(wk)
    /\ client' = "closed"
    /\ Checkpoint(Tr, 128)
    /\ UNCHANGED <<req, backend, endpoint, gen, tool, mainHist, mainI, wk, sem, waiters, result>>

\* ----------------------------------------------------------- retry-storm
RetryBegin ==
    /\ mainPc = "dispatch" /\ req.scenario = "retry"
    /\ Spawn(req.fanout, req.concurrency)

\* mutant: the retry budget is one attempt short
ExhaustedEarly(attempt, max_retries) == attempt >= max_retries

\* if attempt > max_retries
Exhausted(attempt, max_retries) == attempt > max_retries

\* mutant: the backoff doubles without a cap
NextBackoffUncapped(b) == b * 2

\* backoff = min(backoff * 2, 0.5), in milliseconds
NextBackoff(b) == Min(b * 2, MaxBackoffMs)

\* attempt = 0, backoff = 0.02, first call_tool up to its request
RetryFirstCall(i) ==
    /\ SetTr(StartToolCall(Tr, i, 0, 0))
    /\ wk' = [wk EXCEPT ![i].pc = "calling", ![i].attempt = 0,
                        ![i].backoff = InitialBackoffMs]

\* first step of one(i): through the free gate and up to the request, or into
\* the line of waiters
RetryStart(i) ==
    /\ MyTurn(i) /\ req.scenario = "retry"
    /\ IF SemLocked(sem, waiters)
       THEN Enqueue(i)
       ELSE /\ sem' = sem - 1
            /\ RetryFirstCall(i)
            /\ waiters' = waiters
    /\ UNCHANGED <<req, backend, endpoint, gen, tool, mainHist, mainPc, mainI, client, result>>

\* one(i) woken with a permit
RetryEnter(i) ==
    /\ i \in DOMAIN wk /\ wk[i].pc = "admitted" /\ req.scenario = "retry"
    /\ RetryFirstCall(i)
    /\ UNCHANGED <<req, backend, endpoint, gen, tool, mainHist, mainPc, mainI, sem, waiters, client, result>>

\* mutant: the backoff sleep is taken outside the gate, the permit is given back
RetryReturnReleasing(i) ==
    /\ i \in DOMAIN wk /\ wk[i].pc = "calling" /\ req.scenario = "retry"
    /\ Started
    /\ SetTr(End(Tr, i))
    /\ \E o \in CallOutcomes(req.delay_ms, req.error_pct, client, backend) :
         LET h == Append(wk[i].hist, o)
             a == wk[i].attempt + 1 IN
         IF ~CallRaises(o)
         THEN Release([wk EXCEPT ![i].pc = "succeeded", ![i].ret = "ok_true",
                                 ![i].hist = h])
         ELSE IF Exhausted(a, req.max_retries)
         THEN Release([wk EXCEPT ![i].pc = "exhausted", ![i].ret = "ok_false",
                                 ![i].hist = h, ![i].attempt = a])
         ELSE Release([wk EXCEPT ![i].pc = "backoff", ![i].hist = h, ![i].attempt = a,
                                 ![i].sleeps = Append(@, wk[i].backoff)])
    /\ UNCHANGED <<req, backend, endpoint, gen, tool, mainHist, mainPc, mainI, client, result>>

\* call_tool returned (the worker returns its result) or raised (except Exception)
RetryReturn(i) ==
    /\ i \in DOMAIN wk /\ wk[i].pc = "calling" /\ req.scenario = "retry"
    /\ Started
    /\ SetTr(End(Tr, i))
    /\ \E o \in CallOutcomes(req.delay_ms, req.error_pct, client, backend) :
         LET h == Append(wk[i].hist, o)
             a == wk[i].attempt + 1 IN
         IF ~CallRaises(o)
         THEN Release([wk EXCEPT ![i].pc = "succeeded", ![i].ret = "ok_true",
                                 ![i].hist = h])
         ELSE IF Exhausted(a, req.max_retries)
         THEN Release([wk EXCEPT ![i].pc = "exhausted", ![i].ret = "ok_false",
                                 ![i].hist = h, ![i].attempt = a])
         ELSE /\ wk' = [wk EXCEPT ![i].pc = "backoff", ![i].hist = h, ![i].attempt = a,
                                  ![i].sleeps = Append(@, wk[i].backoff)]
              /\ UNCHANGED <<sem, waiters>>
    /\ UNCHANGED <<req, backend, endpoint, gen, tool, mainHist, mainPc, mainI, client, result>>

\* the backoff sleep is over: the interval doubles, the next call_tool starts
RetryWake(i) ==
    /\ i \in DOMAIN wk /\ wk[i].pc = "backoff" /\ req.scenario = "retry"
    /\ Started
    /\ SetTr(StartToolCall(Tr, i, wk[i].attempt, 0))
    /\ wk' = [wk EXCEPT ![i].pc = "calling", ![i].backoff = NextBackoff(@)]
    /\ UNCHANGED <<req, backend, endpoint, gen, tool, mainHist, mainPc, mainI, sem, waiters, client, result>>

\* gather returned every result, exhausted workers included
RetryJoin ==
    /\ mainPc = "gather" /\ req.scenario = "retry"
    /\ AllReturned(wk)
    /\ client' = "closed"
    /\ Checkpoint(Tr, 256)
    /\ UNCHANGED <<req, backend, endpoint, gen, tool, mainHist, mainI, wk, sem, waiters, result>>

\* ------------------------------------------------------------------- DAG
\* the planner span, the client, and gather wrapping every branch(i) in a task
DagBegin ==
    /\ mainPc = "dispatch" /\ req.scenario = "dag"
    /\ Spawn(req.fanout, 0)

\* first step of branch(i): branch_worker span, then call_tool up to its request
BranchStart(i) ==
    /\ MyTurn(i) /\ req.scenario = "dag"
    /\ SetTr(StartToolCall(Start(Tr, i, "branch_worker", "worker", NoAttrs), i, 0, 0))
    /\ wk' = [wk EXCEPT ![i].pc = "calling"]
    /\ UNCHANGED <<req, backend, endpoint, gen, tool, mainHist, mainPc, mainI, sem, waiters, client, result>>

\* the tool call of branch i returns or raises; both spans end
BranchReturn(i) ==
    /\ i \in DOMAIN wk /\ wk[i].pc = "calling" /\ req.scenario = "dag"
    /\ Started
    /\ \E o \in CallOutcomes(req.delay_ms, 0, client, backend) :
         wk' = Returned(wk, i, o)
    /\ SetTr(End(End(Tr, i), i))
    /\ UNCHANGED <<req, backend, endpoint, gen, tool, mainHist, mainPc, mainI, sem, waiters, client, result>>

\* mutant: the join returns at the first completed branch
JoinReadyFirst(w) == \E i \in DOMAIN w : w[i].ret = "ok_true"

\* the join of gather
JoinReady(w) == AllReturned(w)

\* gather returned: aggregator span, then call_tool up to its request
DagJoin ==
    /\ mainPc = "gather" /\ req.scenario = "dag"
    /\ JoinReady(wk)
    /\ SetTr(StartToolCall(Start(Tr, Main, "aggregator", "worker", NoAttrs), Main, 0, 0))
    /\ mainPc' = "aggregating"
    /\ UNCHANGED <<req, backend, endpoint, gen, tool, mainHist, mainI, wk, sem, waiters, client, result>>

\* the aggregator call returns (then the checkpoint starts) or raises
AggReturn ==
    /\ mainPc = "aggregating"
    /\ \E o \in CallOutcomes(req.delay_ms, 0, client, backend) :
         /\ mainHist' = Append(mainHist, o)
         /\ IF CallRaises(o)
            THEN Abort(Tr)
            ELSE /\ client' = "closed"
                 /\ result' = result
                 /\ Checkpoint(End(End(Tr, Main), Main), 64)
    /\ UNCHANGED <<req, backend, endpoint, gen, tool, mainI, wk, sem, waiters>>

\* ----------------------------------------------------------------- chain
ChainBegin ==
    /\ mainPc = "dispatch" /\ req.scenario = "chain"
    /\ SetTr(Start(Tr, Main, "planner", "planner", NoAttrs))
    /\ client' = "open"
    /\ mainI' = 0
    /\ mainPc' = "chain_loop"
    /\ UNCHANGED <<req, backend, endpoint, gen, tool, mainHist, wk, sem, waiters, result>>

\* mutant: the next step is launched without awaiting the pending one
ChainAtLoopEager == mainPc \in {"chain_loop", "chain_call"}

\* the handler is at the head of the chain loop, no step pending
ChainAtLoop == mainPc = "chain_loop"

\* for i in range(depth): step span, then call_tool up to its request
ChainStep ==
    /\ ChainAtLoop /\ req.scenario = "chain"
    /\ mainI < req.depth
    /\ SetTr(StartToolCall(Start(Tr, Main, "step", "worker",
                                 [idx |-> mainI, attempt |-> -1, size_kb |-> -1]),
                           Main, 0, 0))
    /\ mainPc' = "chain_call"
    /\ UNCHANGED <<req, backend, endpoint, gen, tool, mainHist, mainI, wk, sem, waiters, client, result>>

\* the step's call returns (both spans end, next i) or raises
ChainReturn ==
    /\ mainPc = "chain_call"
    /\ \E o \in CallOutcomes(req.delay_ms, 0, client, backend) :
         /\ mainHist' = Append(mainHist, o)
         /\ IF CallRaises(o)
            THEN /\ Abort(Tr)
                 /\ mainI' = mainI
            ELSE /\ SetTr(End(End(Tr, Main), Main))
                 /\ mainI' = mainI + 1
                 /\ mainPc' = "chain_loop"
                 /\ UNCHANGED <<client, result>>
    /\ UNCHANGED <<req, backend, endpoint, gen, tool, wk, sem, waiters>>

\* the loop is over: the client context is left, the checkpoint starts
ChainExit ==
    /\ ChainAtLoop
    /\ mainI >= req.depth
    /\ client' = "closed"
    /\ Checkpoint(Tr, 64)
    /\ UNCHANGED <<req, backend, endpoint, gen, tool, mainHist, mainI, wk, sem, waiters, result>>

\* --------------------------------------------------------- reactive loop
ReactBegin ==
    /\ mainPc = "dispatch" /\ req.scenario = "react"
    /\ SetTr(Start(Tr, Main, "agent_core", "planner", NoAttrs))
    /\ client' = "open"
    /\ mainI' = 0
    /\ mainPc' = "react_loop"
    /\ UNCHANGED <<req, backend, endpoint, gen, tool, mainHist, wk, sem, waiters, result>>

\* mutant: the loop runs one iteration too many
ReactMoreInclusive(i, max_steps) == i <= max_steps

\* for i in range(max_steps)
ReactMore(i, max_steps) == i < max_steps

\* thought span, its reasoning attribute, up to its sleep
ReactThought ==
    /\ mainPc = "react_loop"
    /\ ReactMore(mainI, req.max_steps)
    /\ SetTr(SetPrompt(Start(Tr, Main, "thought", "internal",
                             [idx |-> mainI, attempt |-> -1, size_kb |-> -1]),
                       Main, mainI))
    /\ mainPc' = "thinking"
    /\ UNCHANGED <<req, backend, endpoint, gen, tool, mainHist, mainI, wk, sem, waiters, client, result>>

\* the thought span ends; act span, then call_tool up to its request
ReactAct ==
    /\ mainPc = "thinking"
    /\ SetTr(StartToolCall(Start(End(Tr, Main), Main, "act", "tool_call",
                                 [idx |-> mainI, attempt |-> -1, size_kb |-> -1]),
                           Main, 0, 0))
    /\ mainPc' = "acting"
    /\ UNCHANGED <<req, backend, endpoint, gen, tool, mainHist, mainI, wk, sem, waiters, client, result>>

\* the act call returns or raises; then the draw random.random() < 0.1:
\* break (client context left, checkpoint starts) or the next iteration
ReactObserve ==
    /\ mainPc = "acting"
    /\ \E o \in CallOutcomes(req.delay_ms, 0, client, backend), stop \in BOOLEAN :
         /\ mainHist' = Append(mainHist, o)
         /\ IF CallRaises(o)
            THEN /\ Abort(Tr)
                 /\ mainI' = mainI
            ELSE IF stop
            THEN /\ client' = "closed"
                 /\ Checkpoint(End(End(Tr, Main), Main), 128)
                 /\ UNCHANGED <<mainI, result>>
            ELSE /\ SetTr(End(End(Tr, Main), Main))
                 /\ mainI' = mainI + 1
                 /\ mainPc' = "react_loop"
                 /\ UNCHANGED <<client, result>>
    /\ UNCHANGED <<req, backend, endpoint, gen, tool, wk, sem, waiters>>

\* range(max_steps) is used up: the client context is left, the checkpoint starts
ReactExit ==
    /\ mainPc = "react_loop"
    /\ ~ReactMore(mainI, req.max_steps)
    /\ client' = "closed"
    /\ Checkpoint(Tr, 128)
    /\ UNCHANGED <<req, backend, endpoint, gen, tool, mainHist, mainI, wk, sem, waiters, result>>

\* --------------------------------------------------------- human-in-loop
\* planner span, client, pre_human call up to its request
HumanBegin ==
    /\ mainPc = "dispatch" /\ req.scenario = "human"
    /\ SetTr(StartToolCall(Start(Tr, Main, "planner", "planner", NoAttrs), Main, 0, 0))
    /\ client' = "open"
    /\ mainPc' = "pre_call"
    /\ UNCHANGED <<req, backend, endpoint, gen, tool, mainHist, mainI, wk, sem, waiters, result>>

\* the pre call returns (the human_feedback span starts its sleep) or raises
HumanPre ==
    /\ mainPc = "pre_call"
    /\ \E o \in CallOutcomes(HumanToolDelayMs, 0, client, backend) :
         /\ mainHist' = Append(mainHist, o)
         /\ IF CallRaises(o)
            THEN Abort(Tr)
            ELSE /\ SetTr(Start(End(Tr, Main), Main, "human_feedback", "interactive", NoAttrs))
                 /\ client' = "closed"
                 /\ mainPc' = "human_wait"
                 /\ result' = result
    /\ UNCHANGED <<req, backend, endpoint, gen, tool, mainI, wk, sem, waiters>>

\* mutant: the post call is issued inside the human_feedback span
HumanResumeInside ==
    /\ mainPc = "human_wait"
    /\ SetTr(StartToolCall(Tr, Main, 0, 0))
    /\ client' = "open"
    /\ mainPc' = "post_call"
    /\ UNCHANGED <<req, backend, endpoint, gen, tool, mainHist, mainI, wk, sem, waiters, result>>

\* the wait is over: the interactive span ends, post_human call up to its request
HumanResume ==
    /\ mainPc = "human_wait"
    /\ SetTr(StartToolCall(End(Tr, Main), Main, 0, 0))
    /\ client' = "open"
    /\ mainPc' = "post_call"
    /\ UNCHANGED <<req, backend, endpoint, gen, tool, mainHist, mainI, wk, sem, waiters, result>>

\* the post call returns (the driver returns, no checkpoint) or raises
HumanPost ==
    /\ mainPc = "post_call"
    /\ \E o \in CallOutcomes(HumanToolDelayMs, 0, client, backend) :
         /\ mainHist' = Append(mainHist, o)
         /\ IF CallRaises(o)
            THEN Abort(Tr)
            ELSE /\ Finish(Tr)
                 /\ client' = "closed"
    /\ UNCHANGED <<req, backend, endpoint, gen, tool, mainI, wk, sem, waiters>>

\* --------------------------------------------------- retrieval-augmented
\* total_kb = chunk_count * chunk_size_kb
TotalKb(r) == r.rag_chunks * r.rag_chunk_size_kb

\* mutant: a kilobyte of 1000 bytes
PayloadKilo(payload_size_kb) == IF payload_size_kb > 0 THEN payload_size_kb * 1000 ELSE -1

\* the backend's payload: "a" * (payload_size_kb * 1024) when the size is
\* positive, no payload key (-1) otherwise; a string is modelled by its length
Payload(payload_size_kb) == IF payload_size_kb > 0 THEN payload_size_kb * 1024 ELSE -1

\* planner span, client, retrieval span, vector_db call up to its request
RagBegin ==
    /\ mainPc = "dispatch" /\ req.scenario = "rag"
    /\ SetTr(StartToolCall(
               Start(Start(Tr, Main, "planner", "planner", NoAttrs),
                     Main, "retrieval", "tool_call",
                     [idx |-> -1, attempt |-> -1, size_kb |-> TotalKb(req)]),
               Main, 0, TotalKb(req)))
    /\ client' = "open"
    /\ mainPc' = "retrieving"
    /\ UNCHANGED <<req, backend, endpoint, gen, tool, mainHist, mainI, wk, sem, waiters, result>>

\* the retrieval call returns: the payload is echoed into the retrieval span,
\* the span ends, the generation span starts its sleep; or the call raises
RagRetrieved ==
    /\ mainPc = "retrieving"
    /\ \E o \in CallOutcomes(req.delay_ms, 0, client, backend) :
         /\ mainHist' = Append(mainHist, o)
         /\ IF CallRaises(o)
            THEN Abort(Tr)
            ELSE LET got == End(Tr, Main)
                     echoed == IF Payload(TotalKb(req)) # -1
                               THEN SetContent(got, Main, Payload(TotalKb(req)))
                               ELSE got IN
                 /\ SetTr(Start(End(echoed, Main), Main, "generation", "generation", NoAttrs))
                 /\ mainPc' = "generating"
                 /\ UNCHANGED <<client, result>>
    /\ UNCHANGED <<req, backend, endpoint, gen, tool, mainI, wk, sem, waiters>>

\* the generation sleep is over: the driver returns, no checkpoint
RagGenerated ==
    /\ mainPc = "generating"
    /\ Finish(Tr)
    /\ client' = "closed"
    /\ UNCHANGED <<req, backend, endpoint, gen, tool, mainHist, mainI, wk, sem, waiters>>

\* --------------------------------------------------------------- /stream
\* while time.time() - t0 < duration_s
StreamMore(elapsed_ms, duration_s) == elapsed_ms < duration_s * 1000

\* the loop test, then either yield f"token {i}" or await bg_task
Loop(g) ==
    IF StreamMore(g.elapsed, g.duration_s)
    THEN [g EXCEPT !.tokens = Append(@, [idx |-> g.i, at |-> g.elapsed]), !.pc = "yielded"]
    ELSE [g EXCEPT !.pc = "awaiting"]

\* gen() up to its first suspension: the token_stream span, the background
\* task (created with a copy of the generator's context), t0, i = 0
StreamBegin ==
    /\ endpoint = "stream" /\ gen.pc = "start"
    /\ LET tr == Start(Tr, Gen, "token_stream", "token_stream", NoAttrs) IN
         /\ spans' = tr.spans
         /\ ctx' = (Main :> tr.ctx[Gen]) @@ tr.ctx
    /\ mainPc' = "dispatch"
    /\ gen' = Loop(gen)
    /\ UNCHANGED <<req, backend, endpoint, tool, mainHist, mainI, wk, sem, waiters, client, result>>

\* the consumer took the token: i += 1, then asyncio.sleep(0.05)
StreamSent ==
    /\ gen.pc = "yielded"
    /\ gen' = [gen EXCEPT !.i = @ + 1, !.pc = "sleeping"]
    /\ UNCHANGED <<req, backend, endpoint, tool, mainPc, mainHist, mainI, wk, sem, waiters, client, result, spans, ctx>>

\* the sleep is over, after every task that was ready has run: the clock
\* moved by one tick, or by a stall that uses up the duration
StreamTick ==
    /\ gen.pc = "sleeping"
    /\ mainPc # "dispatch" /\ Started
    /\ \E adv \in {TickMs, TickMs + gen.duration_s * 1000} :
         gen' = Loop([gen EXCEPT !.elapsed = @ + adv])
    /\ UNCHANGED <<req, backend, endpoint, tool, mainPc, mainHist, mainI, wk, sem, waiters, client, result, spans, ctx>>

\* mutant: the background task is not awaited
BgDoneNoWait == TRUE

\* await bg_task resumes once the background task has returned or raised
BgDone == mainPc = "done"

\* the await delivered the task's result or its exception; either way the
\* with block is left and the token_stream span ends
StreamAwait ==
    /\ gen.pc = "awaiting"
    /\ BgDone
    /\ SetTr(End(Tr, Gen))
    /\ gen' = [gen EXCEPT !.pc = IF result = "ok" THEN "done" ELSE "failed"]
    /\ UNCHANGED <<req, backend, endpoint, tool, mainPc, mainHist, mainI, wk, sem, waiters, client, result>>

\* ------------------------------------------------------------------ spec
Workers == 0..(MaxFanout - 1)

Next ==
    \/ RunBegin
    \/ RunReject
    \/ StreamBegin
    \/ StreamSent
    \/ StreamTick
    \/ StreamAwait
    \/ FanoutBegin
    \/ \E i \in Workers : FanoutStart(i)
    \/ \E i \in Workers : FanoutEnter(i)
    \/ \E i \in Workers : FanoutReturn(i)
    \/ FanoutJoin
    \/ GatherRaise
    \/ CheckpointDone
    \/ RetryBegin
    \/ \E i \in Workers : RetryStart(i)
    \/ \E i \in Workers : RetryEnter(i)
    \/ \E i \in Workers : RetryReturn(i)
    \/ \E i \in Workers : RetryWake(i)
    \/ RetryJoin
    \/ DagBegin
    \/ \E i \in Workers : BranchStart(i)
    \/ \E i \in Workers : BranchReturn(i)
    \/ DagJoin
    \/ AggReturn
    \/ ChainBegin
    \/ ChainStep
    \/ ChainReturn
    \/ ChainExit
    \/ ReactBegin
    \/ ReactThought
    \/ ReactAct
    \/ ReactObserve
    \/ ReactExit
    \/ HumanBegin
    \/ HumanPre
    \/ HumanResume
    \/ HumanPost
    \/ RagBegin
    \/ RagRetrieved
    \/ RagGenerated

Spec == Init /\ [][Next]_vars

\* the event loop runs every ready task, every sleep ends, and every tool
\* call returns or runs into the client's timeout: a step that can be taken
\* is eventually taken
FairSpec == Spec /\ WF_vars(Next)
\* ------------------------------------------- the backend's handler alone
\* one request to /tool/{tool_name}: the parameters, then the handler's state
ToolRequests ==
    { [NoTool EXCEPT !.pc = "start", !.delay_given = g, !.delay_ms = IF g THEN d ELSE 0,
                     !.error_pct = e, !.stream = st, !.payload_size_kb = k] :
        g \in BOOLEAN, d \in 0..MaxToolDelayMs, e \in ErrorPcts, st \in {0, 1},
        k \in 0..MaxChunkKb }

InitTool ==
    /\ tool \in ToolRequests
    /\ endpoint = "tool"
    /\ req = UnknownRequest
    /\ backend = "up"
    /\ gen = NoGen
    /\ mainPc = "none"
    /\ mainI = 0
    /\ mainHist = <<>>
    /\ wk = [i \in {} |-> NewWorker]
    /\ sem = 0
    /\ waiters = <<>>
    /\ client = "none"
    /\ spans = [id \in {} |-> 0]
    /\ ctx = (Main :> NoSpan)
    /\ result = "none"

Agent == <<req, backend, endpoint, gen, mainPc, mainI, mainHist, wk, sem, waiters, client, spans, ctx, result>>

\* d = DEFAULT_DELAY_MS if delay_ms is None else delay_ms
Delay(t) == IF t.delay_given THEN t.delay_ms ELSE ToolDefaultDelayMs

\* random.random() < e: the draw cannot fire at rate 0 and always fires at rate 1
Draws(error_pct) ==
    IF error_pct <= 0 THEN {FALSE} ELSE IF error_pct >= 100 THEN {TRUE} ELSE {TRUE, FALSE}

\* mutant: the wait per chunk without its floor of one millisecond
PerUnclamped(d) == (d * 1000) \div Chunks

\* per = max(d / chunks, 1), in microseconds
Per(d) == Max((d * 1000) \div Chunks, MinPerUs)

\* the handler up to its first suspension: the failure draw, then either the
\* streaming response is returned or the plain sleep starts
ToolBegin ==
    /\ tool.pc = "start"
    /\ \E fires \in Draws(tool.error_pct) :
         tool' = [tool EXCEPT !.d = Delay(tool),
                              !.pc = IF fires THEN "raised"
                                     ELSE IF tool.stream = 1 THEN "streaming"
                                     ELSE "sleeping"]
    /\ UNCHANGED Agent

\* gen(): one pass of the loop, asyncio.sleep(per / 1000.0) then yield chunk i
ToolChunk ==
    /\ tool.pc = "streaming" /\ tool.i < Chunks
    /\ tool' = [tool EXCEPT !.waits = Append(@, Per(tool.d)),
                            !.slept_us = @ + Per(tool.d),
                            !.chunks = Append(@, tool.i),
                            !.i = @ + 1]
    /\ UNCHANGED Agent

\* gen(): range(chunks) is used up
ToolStreamEnd ==
    /\ tool.pc = "streaming" /\ tool.i >= Chunks
    /\ tool' = [tool EXCEPT !.pc = "done"]
    /\ UNCHANGED Agent

\* asyncio.sleep(d / 1000.0) is over: the response, with the payload if asked
ToolRespond ==
    /\ tool.pc = "sleeping"
    /\ tool' = [tool EXCEPT !.slept_us = tool.d * 1000,
                            !.payload = Payload(tool.payload_size_kb),
                            !.pc = "done"]
    /\ UNCHANGED Agent

NextTool ==
    \/ ToolBegin
    \/ ToolChunk
    \/ ToolStreamEnd
    \/ ToolRespond

SpecTool == InitTool /\ [][NextTool]_vars

\* ---------------------------------------------------------------- claims
SpansNamed(n) == {id \in DOMAIN spans : spans[id].name = n}
OpenSpans(n) == {id \in SpansNamed(n) : spans[id].open}
SpansOf(t) == {id \in DOMAIN spans : spans[id].task = t}
Calling == {i \in DOMAIN wk : wk[i].pc = "calling"}
Gated == req.scenario \in {"fanout", "retry"}
Failures(h) == {k \in 1..Len(h) : h[k] # "ok"}

\* C1: in fan-out and retry-storm with concurrency C >= 1, the number of
\* workers past the gate with a tool call in flight never exceeds C, and in
\* fan-out the number of open worker spans never exceeds C.
C1_GateBound ==
    (Gated /\ req.concurrency >= 1) =>
        /\ Cardinality(Calling) <= req.concurrency
        /\ Cardinality({id \in OpenSpans("tool_call") : spans[id].task \in DOMAIN wk})
             <= req.concurrency
        /\ req.scenario = "fanout" => Cardinality(OpenSpans("worker")) <= req.concurrency

\* C1 witness: fan-out of 3 through a gate of 2: two calls in flight, one worker waiting
C1_Witness ==
    /\ req.scenario = "fanout" /\ req.fanout = 3 /\ req.concurrency = 2
    /\ Cardinality(Calling) = 2
    /\ Cardinality(OpenSpans("worker")) = 2
    /\ \E i \in DOMAIN wk : wk[i].pc = "waiting"

\* C2: in fan-out, retry-storm and DAG the planner span is never closed while
\* a launched sibling task has not completed (the original claim).
C2_ParentWaitsForSiblings ==
    req.scenario \in {"fanout", "retry", "dag"} =>
        \A p \in SpansNamed("planner") :
            ~spans[p].open => \A i \in DOMAIN wk : wk[i].ret # "none"

\* C3: in retry-storm with max_retries R >= 0 every worker issues at most R+1
\* tool calls with attempt numbers 0, 1, 2, ... in order; a worker whose calls
\* all fail stops after exactly R+1 calls and returns {ok: false} as a value; a
\* worker issues no call after its first successful one.
C3_RetryBudget ==
    req.scenario = "retry" =>
        \A i \in DOMAIN wk :
            LET n == Cardinality(SpansOf(i))
                h == wk[i].hist
                ended == wk[i].pc \notin {"new", "waiting", "admitted", "calling", "backoff"}
            IN  /\ n <= req.max_retries + 1
                /\ \A k \in 1..n : /\ <<i, k>> \in SpansOf(i)
                                   /\ spans[<<i, k>>].name = "tool_call"
                                   /\ spans[<<i, k>>].attrs.attempt = k - 1
                /\ Len(h) <= n /\ n <= Len(h) + 1
                /\ \A k \in 1..Len(h) : h[k] = "ok" =>
                       /\ k = Len(h) /\ n = k
                       /\ wk[i].pc = "succeeded" /\ wk[i].ret = "ok_true"
                /\ (ended /\ Failures(h) = 1..Len(h)) =>
                       /\ wk[i].pc = "exhausted" /\ wk[i].ret = "ok_false"
                       /\ n = req.max_retries + 1 /\ Len(h) = n
                /\ wk[i].pc = "exhausted" => Failures(h) = 1..Len(h)
                /\ wk[i].ret # "raised"

\* C3 witness: with max_retries 1 and fanout 3 every worker is exhausted after
\* exactly 2 calls
C3_Witness ==
    /\ req.scenario = "retry" /\ req.fanout = 3 /\ req.max_retries = 1
    /\ req.error_pct = 100
    /\ \A i \in DOMAIN wk : /\ wk[i].pc = "exhausted" /\ wk[i].ret = "ok_false"
                            /\ Cardinality(SpansOf(i)) = 2

RECURSIVE Pow2(_)
Pow2(n) == IF n = 0 THEN 1 ELSE 2 * Pow2(n - 1)

\* C4: the k-th backoff sleep of a retry-storm worker lasts min(20 * 2^(k-1), 500)
\* ms, and no sleep follows the failure that exhausts the worker.
C4_BackoffSchedule ==
    req.scenario = "retry" =>
        \A i \in DOMAIN wk :
            LET sl == wk[i].sleeps
                nf == Cardinality(Failures(wk[i].hist))
            IN  /\ \A k \in 1..Len(sl) : sl[k] = Min(20 * Pow2(k - 1), 500)
                /\ Len(sl) = IF wk[i].pc = "exhausted" THEN nf - 1 ELSE nf
                /\ wk[i].pc = "exhausted" => Len(sl) = req.max_retries

\* C4 witness: a worker exhausted after 7 sleeps, the 6th and 7th at the cap
C4_Witness ==
    /\ req.scenario = "retry"
    /\ \E i \in DOMAIN wk : /\ wk[i].pc = "exhausted"
                            /\ wk[i].sleeps = <<20, 40, 80, 160, 320, 500, 500>>

\* C5: in the chain, step i's span is opened only after step i-1's tool call
\* has returned and step i-1's span has closed; at most one step span is open
\* and at most one tool call is in flight.
C5_ChainSequential ==
    req.scenario = "chain" =>
        /\ Cardinality(OpenSpans("step")) <= 1
        /\ Cardinality(OpenSpans("tool_call")) <= 1
        /\ \A s \in SpansNamed("step") :
             \A j \in 0..(spans[s].attrs.idx - 1) :
                \E p \in SpansNamed("step") :
                    /\ spans[p].attrs.idx = j
                    /\ ~spans[p].open
                    /\ \E c \in SpansNamed("tool_call") :
                          spans[c].parent = p /\ ~spans[c].open
        /\ \A s, p \in SpansNamed("step") : spans[s].attrs.idx = spans[p].attrs.idx => s = p

\* C5 witness: depth 3, the third step's call in flight
C5_Witness ==
    /\ req.scenario = "chain" /\ req.depth = 3
    /\ \E s \in OpenSpans("step") : spans[s].attrs.idx = 2
    /\ Cardinality(OpenSpans("tool_call")) = 1

\* C6: in the DAG with N branches the aggregator span is opened only after all
\* N branch spans have closed; a successful run issues exactly one aggregator
\* call; if a branch fails the aggregator span is never opened.
C6_AggregatorAfterJoin ==
    req.scenario = "dag" =>
        LET agg == SpansNamed("aggregator")
            aggCalls == {c \in SpansNamed("tool_call") : spans[c].parent \in agg}
        IN  /\ agg # {} =>
                  /\ Cardinality(SpansNamed("branch_worker")) = req.fanout
                  /\ OpenSpans("branch_worker") = {}
                  /\ \A i \in DOMAIN wk : wk[i].ret = "ok_true"
            /\ Cardinality(agg) <= 1 /\ Cardinality(aggCalls) <= 1
            /\ result = "ok" => Cardinality(agg) = 1 /\ Cardinality(aggCalls) = 1
            /\ SomeRaised(wk) => agg = {}

\* C6 witness: 3 branches closed, the aggregator call in flight
C6_Witness ==
    /\ req.scenario = "dag" /\ req.fanout = 3
    /\ OpenSpans("aggregator") # {}
    /\ Cardinality(SpansNamed("branch_worker")) = 3

\* C7: every span a sibling opens has as parent the span active on its own
\* path: fan-out creates exactly N worker spans, each a child of the planner
\* span; DAG branch_worker spans and retry-storm tool_call spans are children
\* of the planner span; a tool_call span opened inside worker (branch) i is a
\* child of worker (branch) i's own span.
C7_ParentOnOwnPath ==
    /\ Cardinality(SpansNamed("planner")) <= 1
    /\ \A id \in SpansNamed("worker") \cup SpansNamed("branch_worker") :
          /\ spans[id].parent \in SpansNamed("planner")
          /\ spans[id].task \in DOMAIN wk
          /\ \A other \in SpansNamed(spans[id].name) :
                spans[other].task = spans[id].task => other = id
    /\ req.scenario = "fanout" =>
          /\ Cardinality(SpansNamed("worker")) <= req.fanout
          /\ \A id \in SpansNamed("worker") : spans[id].attrs.idx = spans[id].task
          /\ (DOMAIN wk = 0..(req.fanout - 1) /\ \A i \in DOMAIN wk : wk[i].ret # "none") =>
                Cardinality(SpansNamed("worker")) = req.fanout
    /\ \A id \in SpansNamed("tool_call") :
          spans[id].task \in DOMAIN wk =>
             LET p == spans[id].parent IN
             /\ p \in DOMAIN spans
             /\ req.scenario = "retry" => p \in SpansNamed("planner")
             /\ req.scenario = "fanout" =>
                   spans[p].name = "worker" /\ spans[p].task = spans[id].task
             /\ req.scenario = "dag" =>
                   spans[p].name = "branch_worker" /\ spans[p].task = spans[id].task

\* C7 witness: two fan-out workers interleaved, each with its own tool_call
\* span open under its own worker span
C7_Witness ==
    /\ req.scenario = "fanout" /\ req.fanout = 3
    /\ \E a, b \in OpenSpans("tool_call") :
          /\ spans[a].task # spans[b].task
          /\ spans[spans[a].parent].task = spans[a].task
          /\ spans[spans[b].parent].task = spans[b].task

RECURSIVE ReachesRoot(_, _)
ReachesRoot(id, fuel) ==
    IF id = <<Main, 1>> THEN TRUE
    ELSE IF fuel = 0 \/ id \notin DOMAIN spans THEN FALSE
    ELSE ReachesRoot(spans[id].parent, fuel - 1)

\* C8: in every run every opened span is closed exactly once, no span is
\* closed after its parent has closed, and the parent relation is a tree
\* rooted at the run's root span (the original claim).
C8_SpanDiscipline ==
    /\ \A id \in DOMAIN spans :
          /\ spans[id].closes = (IF spans[id].open THEN 0 ELSE 1)
          /\ (spans[id].parent = NoSpan) = (id = <<Main, 1>>)
          /\ ReachesRoot(id, Cardinality(DOMAIN spans))
          /\ (spans[id].open /\ spans[id].parent # NoSpan) => spans[spans[id].parent].open
    /\ (mainPc = "done" /\ \A i \in DOMAIN wk : wk[i].ret # "none") =>
          \A id \in DOMAIN spans : ~spans[id].open

\* C9: the reactive loop with max_steps M runs at most M iterations; each is
\* one thought span that closes before the iteration's act span (one tool
\* call) opens; the loop is left early only after a complete iteration.
C9_ReactBounded ==
    req.scenario = "react" =>
        LET th == SpansNamed("thought")
            ac == SpansNamed("act")
        IN  /\ Cardinality(th) <= req.max_steps
            /\ Cardinality(ac) <= Cardinality(th) /\ Cardinality(th) <= Cardinality(ac) + 1
            /\ \A s \in th \cup ac : spans[s].attrs.idx \in 0..(req.max_steps - 1)
            /\ \A s, p \in th : spans[s].attrs.idx = spans[p].attrs.idx => s = p
            /\ \A s, p \in ac : spans[s].attrs.idx = spans[p].attrs.idx => s = p
            /\ \A a \in ac :
                  /\ \E t \in th : spans[t].attrs.idx = spans[a].attrs.idx /\ ~spans[t].open
                  /\ Cardinality({c \in SpansNamed("tool_call") : spans[c].parent = a}) = 1
            /\ Cardinality(OpenSpans("thought") \cup OpenSpans("act")) <= 1
            /\ (SpansNamed("checkpoint") # {} /\ Cardinality(th) < req.max_steps) =>
                  /\ Cardinality(ac) >= 1 /\ Cardinality(ac) = Cardinality(th)
                  /\ OpenSpans("act") = {}
                  /\ Len(mainHist) = Cardinality(ac)

\* C9 witness: max_steps 3, the loop left after exactly one iteration
C9_Witness ==
    /\ req.scenario = "react" /\ req.max_steps = 3
    /\ result = "ok"
    /\ Cardinality(SpansNamed("act")) = 1
    /\ Cardinality(SpansNamed("checkpoint")) = 1

CallFailed ==
    \/ \E k \in 1..Len(mainHist) : mainHist[k] # "ok"
    \/ \E i \in DOMAIN wk : \E k \in 1..Len(wk[i].hist) : wk[i].hist[k] # "ok"

\* C10: in the drivers without the retry driver a failed tool call aborts the
\* run: once a call has failed the driver opens no further span, and /run
\* does not return {ok: true}.
C10_FailurePropagates ==
    /\ []((req.scenario # "retry" /\ CallFailed) =>
             /\ result # "ok"
             /\ mainPc \in {"gather", "done"}
             /\ mainPc = "done" => result = "error")
    /\ [][(req.scenario # "retry" /\ CallFailed) =>
             (SpansOf(Main)' = SpansOf(Main) /\ result' # "ok")]_vars

\* C10 witness: a chain of depth 3 aborted at its first step: one step span,
\* no checkpoint, an error result
C10_Witness ==
    /\ req.scenario = "chain" /\ req.depth = 3
    /\ result = "error"
    /\ Cardinality(SpansNamed("step")) = 1
    /\ SpansNamed("checkpoint") = {}

\* ------------------------------------------------------------ C11 .. C20
RetryState(w) == <<w.attempt, w.backoff, w.sleeps, w.hist, w.ret>>
Terminal(i) == wk[i].pc \in {"succeeded", "exhausted"}
Checkpoints == SpansNamed("checkpoint")

\* C11: in retry-storm every worker owns its retry state: its attempt counter
\* counts its own failures only; a step in which one worker's call returns
\* leaves every sibling's attempt counter, backoff, sleeps, history and outcome
\* as they were and moves a sibling at most from waiting to admitted; no
\* worker is ever failed or cancelled and the run never aborts; once every
\* worker has succeeded or is exhausted the join can complete, and a finished
\* run has run its one checkpoint and returned ok.
C11_RetryIndependence ==
    /\ [](req.scenario = "retry" =>
            /\ result # "error"
            /\ \A i \in DOMAIN wk :
                  /\ wk[i].ret # "raised" /\ wk[i].pc # "failed"
                  /\ wk[i].attempt = Cardinality(Failures(wk[i].hist))
            /\ (mainPc = "gather" /\ \A i \in DOMAIN wk : Terminal(i)) => ENABLED RetryJoin
            /\ mainPc = "done" =>
                  /\ result = "ok"
                  /\ Cardinality(Checkpoints) = 1
                  /\ \A i \in DOMAIN wk : Terminal(i))
    /\ [][(req.scenario = "retry" /\ DOMAIN wk' = DOMAIN wk) =>
            \A i \in DOMAIN wk :
               wk'[i].hist # wk[i].hist =>
                  \A j \in DOMAIN wk \ {i} :
                     /\ RetryState(wk'[j]) = RetryState(wk[j])
                     /\ \/ wk'[j].pc = wk[j].pc
                        \/ wk[j].pc = "waiting" /\ wk'[j].pc = "admitted"]_vars

\* C11 witness: a retry-storm run that returned ok with one worker exhausted
\* after two failures and a sibling that succeeded at its first attempt
C11_Witness ==
    /\ req.scenario = "retry" /\ result = "ok"
    /\ \E i, j \in DOMAIN wk :
          /\ wk[i].pc = "exhausted" /\ wk[i].attempt = 2
          /\ wk[j].pc = "succeeded" /\ wk[j].attempt = 0

TokenStream == <<Gen, 1>>
StreamOver == gen.pc \in {"awaiting", "done", "failed"}

\* C12: in /stream the token_stream span is closed only when the background
\* fan-out task, launched inside that span with concurrency 10, has finished
\* (and, when it returned normally, every one of its workers is done and its
\* planner span is closed); the tokens carry the indices 0, 1, 2, ... in
\* order, each yielded while the elapsed time was below duration_s; the
\* background task is awaited only once the elapsed time has reached the
\* duration, and no token is yielded from then on.
C12_StreamOrdering ==
    /\ [](endpoint = "stream" =>
            /\ (TokenStream \in DOMAIN spans /\ ~spans[TokenStream].open) =>
                  /\ mainPc = "done"
                  /\ gen.pc \in {"done", "failed"}
                  /\ result = "ok" =>
                        /\ \A i \in DOMAIN wk : wk[i].pc = "done"
                        /\ \A id \in DOMAIN spans \ {TokenStream} : ~spans[id].open
            /\ mainPc # "none" => (TokenStream \in DOMAIN spans /\ req.concurrency = 10)
            /\ \A id \in SpansNamed("planner") : spans[id].parent = TokenStream
            /\ \A k \in 1..Len(gen.tokens) :
                  /\ gen.tokens[k].idx = k - 1
                  /\ gen.tokens[k].at < gen.duration_s * 1000
            /\ StreamOver => gen.elapsed >= gen.duration_s * 1000)
    /\ [][(endpoint = "stream" /\ StreamOver) => gen'.tokens = gen.tokens]_vars

\* C12 witness: twenty tokens were yielded, the generator awaits the
\* background run, which still has a call in flight under the open span
C12_Witness ==
    /\ endpoint = "stream" /\ gen.pc = "awaiting"
    /\ Len(gen.tokens) = 20 /\ gen.tokens[20].idx = 19
    /\ mainPc = "gather" /\ Calling # {}
    /\ spans[TokenStream].open

Interactive == SpansNamed("human_feedback")
ToolCalls == SpansNamed("tool_call")

\* C13: in human-in-loop the pre call, the interactive wait and the post call
\* never overlap: at most one of them is open in any state; whenever the
\* interactive span exists the pre call's span is closed and the call has
\* returned successfully; no tool call is open while the interactive span is
\* open; a tool call started after the interactive span exists only once
\* that span is closed; there are at most two tool calls and one wait.
C13_HumanSequential ==
    req.scenario = "human" =>
        /\ Cardinality(OpenSpans("tool_call")) + Cardinality(OpenSpans("human_feedback")) <= 1
        /\ Cardinality(ToolCalls) <= 2 /\ Cardinality(Interactive) <= 1
        /\ \A h \in Interactive :
              /\ spans[h].kind = "interactive"
              /\ Len(mainHist) >= 1 /\ mainHist[1] = "ok"
              /\ \E t \in ToolCalls : t[2] < h[2]
              /\ \A t \in ToolCalls :
                    /\ t[2] < h[2] => ~spans[t].open
                    /\ t[2] > h[2] => ~spans[h].open
              /\ spans[h].open => (mainPc = "human_wait" /\ OpenSpans("tool_call") = {})
        /\ \A t \in ToolCalls : spans[t].open => mainPc \in {"pre_call", "post_call"}
        /\ Cardinality(ToolCalls) = 2 => Interactive # {}

\* C13 witness: the post call is in flight after a pre call and a wait that
\* are both closed
C13_Witness ==
    /\ req.scenario = "human" /\ mainPc = "post_call"
    /\ Cardinality(ToolCalls) = 2 /\ Cardinality(OpenSpans("tool_call")) = 1
    /\ \E h \in Interactive : ~spans[h].open /\ spans[h].closes = 1

DriverRoots == {id \in DOMAIN spans : spans[id].name \in {"planner", "agent_core"}}
Checkpointing == {"fanout", "chain", "retry", "dag", "react"}

\* C14: a run opens at most one checkpoint span; the span is a child of the
\* driver's root span (planner or agent_core, of kind planner), it exists only
\* when every other child of that root is closed, and the root is open as
\* long as it is open; a fan-out, chain, retry-storm, DAG or reactive-loop run
\* that returned ok has exactly one, closed; human-in-loop and
\* retrieval-augmented runs have none.
C14_OneCheckpoint ==
    /\ req.scenario \in {"human", "rag"} => Checkpoints = {}
    /\ Cardinality(Checkpoints) <= 1
    /\ \A c \in Checkpoints :
          /\ spans[c].kind = "checkpoint"
          /\ spans[c].parent \in DriverRoots
          /\ spans[spans[c].parent].kind = "planner"
          /\ spans[c].open => spans[spans[c].parent].open
          /\ \A id \in DOMAIN spans \ {c} :
                spans[id].parent = spans[c].parent => ~spans[id].open
    /\ (result = "ok" /\ req.scenario \in Checkpointing) =>
          /\ Cardinality(Checkpoints) = 1
          /\ \A c \in Checkpoints : ~spans[c].open /\ spans[c].closes = 1

\* C14 witness: a reactive loop of zero iterations returned ok with its one
\* checkpoint under agent_core and no thought span
C14_Witness ==
    /\ req.scenario = "react" /\ req.max_steps = 0 /\ result = "ok"
    /\ SpansNamed("thought") = {}
    /\ \E c \in Checkpoints : spans[spans[c].parent].name = "agent_core"

Kinds ==
    {"planner", "worker", "tool_call", "checkpoint", "token_stream", "internal",
     "interactive", "generation"}

\* C15: every span of a /run or /stream request has one of the eight kinds
\* planner, worker, tool_call, checkpoint, token_stream, internal,
\* interactive, generation, and the span without a parent of a /run request
\* is the driver's root span, of kind planner.
C15_SpanKinds ==
    /\ \A id \in DOMAIN spans : spans[id].kind \in Kinds
    /\ endpoint = "run" =>
          \A id \in DOMAIN spans :
             spans[id].parent = NoSpan => (id \in DriverRoots /\ spans[id].kind = "planner")

DriverSpanNames(scenario) ==
    {"workflow", "tool_call"} \cup
    CASE scenario = "fanout" -> {"planner", "worker", "checkpoint"}
      [] scenario = "chain" -> {"planner", "step", "checkpoint"}
      [] scenario = "retry" -> {"planner", "checkpoint"}
      [] scenario = "dag" -> {"planner", "branch_worker", "aggregator", "checkpoint"}
      [] scenario = "react" -> {"agent_core", "thought", "act", "checkpoint"}
      [] scenario = "human" -> {"planner", "human_feedback"}
      [] scenario = "rag" -> {"planner", "retrieval", "generation"}
      [] OTHER -> {}

\* C16: a /run request whose scenario is not one of the seven known values
\* ends in a client error with nothing executed: no span, no tool call, no
\* task, no client; a request with a known scenario never ends in a client
\* error, opens only the spans of the matching driver, with at most one
\* driver root span, and has result ok only when the handler is done, that
\* driver's root span exists and every span of the handler's path is closed.
C16_Dispatch ==
    endpoint = "run" =>
        /\ req.scenario \notin Scenarios =>
              /\ DOMAIN spans = {} /\ mainHist = <<>> /\ DOMAIN wk = {} /\ client = "none"
              /\ result \in {"none", "client_error"}
              /\ mainPc = "done" => result = "client_error"
        /\ req.scenario \in Scenarios =>
              /\ result # "client_error"
              /\ \A id \in DOMAIN spans : spans[id].name \in DriverSpanNames(req.scenario)
              /\ Cardinality(DriverRoots) <= 1
        /\ result = "ok" =>
              /\ req.scenario \in Scenarios /\ mainPc = "done"
              /\ Cardinality(DriverRoots) = 1
              /\ \A id \in SpansOf(Main) : ~spans[id].open

\* C16 witness: the request with the unknown scenario was answered with a
\* client error and left no span behind
C16_Witness ==
    /\ endpoint = "run" /\ req.scenario \notin Scenarios
    /\ mainPc = "done" /\ result = "client_error" /\ DOMAIN spans = {}

Retrievals == SpansNamed("retrieval")
Generations == SpansNamed("generation")

\* C17: in a retrieval-augmented run with chunk_count n and chunk_size s the
\* retrieval span carries the size n*s and so does the one tool call made
\* under it; once that call has succeeded the retrieval span, and no other
\* span, carries the echoed payload, whose length is exactly n*s*1024 bytes
\* when n*s > 0 (and nothing is echoed when n*s = 0); the echo is in place
\* whenever the retrieval span is closed after a success; the generation span
\* exists only after the retrieval span is closed, and is opened after it.
C17_RagPayload ==
    req.scenario = "rag" =>
        LET total == req.rag_chunks * req.rag_chunk_size_kb
            succeeded == mainHist # <<>> /\ mainHist[1] = "ok" IN
        /\ Cardinality(Retrievals) <= 1 /\ Cardinality(Generations) <= 1
        /\ \A r \in Retrievals :
              /\ spans[r].attrs.size_kb = total
              /\ \A t \in ToolCalls : spans[t].parent = r /\ spans[t].attrs.size_kb = total
              /\ Cardinality(ToolCalls) = 1
              /\ spans[r].content = IF succeeded /\ total > 0 THEN total * 1024 ELSE -1
              /\ spans[r].open => ~succeeded
        /\ \A id \in DOMAIN spans \ Retrievals : spans[id].content = -1
        /\ \A g \in Generations :
              /\ succeeded
              /\ \E r \in Retrievals : r[2] < g[2]
              /\ \A r \in Retrievals : ~spans[r].open /\ spans[r].closes = 1

\* C17 witness: two chunks of 2 KB were retrieved, 4096 bytes are echoed
\* into the closed retrieval span and the generation span is open
C17_Witness ==
    /\ req.scenario = "rag" /\ req.rag_chunks = 2 /\ req.rag_chunk_size_kb = 2
    /\ mainPc = "generating"
    /\ \E r \in Retrievals : spans[r].content = 4096 /\ ~spans[r].open
    /\ \E g \in Generations : spans[g].open

RECURSIVE SumSeq(_)
SumSeq(q) == IF q = <<>> THEN 0 ELSE Head(q) + SumSeq(Tail(q))
Streamed == tool.stream = 1 /\ tool.pc = "done"
InOrder(q) == \A k \in 1..Len(q) : q[k] = k - 1
SameWaits(q) == \A k \in 1..Len(q) : q[k] = q[1]

\* C18 as stated: a finished stream has the 50 chunks 0..49 in order, each
\* preceded by the same wait, and the waits sum to the requested delay,
\* whatever the delay, delays below 50 ms included; a request whose failure
\* draw fired produced no chunk and slept nothing.
C18_WaitsSumToDelay ==
    /\ Streamed =>
          /\ Len(tool.chunks) = Chunks /\ InOrder(tool.chunks)
          /\ Len(tool.waits) = Chunks /\ SameWaits(tool.waits)
          /\ SumSeq(tool.waits) = Delay(tool) * 1000
    /\ tool.pc = "raised" => (tool.chunks = <<>> /\ tool.slept_us = 0)

\* C18 amended: a stream yields its chunks in index order 0, 1, 2, ..., one
\* wait before each chunk, every wait the same max(delay / 50, 1 ms); a
\* finished stream has exactly 50 chunks and its waits sum to the requested
\* delay when that is at least 50 ms and to 50 ms when it is less; a request
\* whose failure draw fired produced no chunk and slept nothing, and the draw
\* never fires at rate 0 and always fires at rate 1.
C18_WaitsSumToClampedDelay ==
    /\ InOrder(tool.chunks) /\ SameWaits(tool.waits)
    /\ Len(tool.waits) = Len(tool.chunks) /\ Len(tool.chunks) <= Chunks
    /\ SumSeq(tool.waits) = tool.slept_us \/ tool.stream # 1
    /\ Streamed =>
          /\ Len(tool.chunks) = Chunks
          /\ \A k \in 1..Chunks : tool.waits[k] * Chunks = Max(Delay(tool), 50) * 1000
          /\ SumSeq(tool.waits) =
                IF Delay(tool) >= 50 THEN Delay(tool) * 1000 ELSE 50 * 1000
    /\ tool.pc = "raised" => (tool.chunks = <<>> /\ tool.slept_us = 0 /\ tool.error_pct > 0)
    /\ (tool.error_pct >= 100 /\ tool.pc # "start") => tool.pc = "raised"
    /\ tool.stream # 1 => tool.chunks = <<>>

\* C18 witness: a stream with a requested delay of 20 ms has finished: 50
\* chunks, 50 waits of one millisecond
C18_Witness ==
    /\ Streamed /\ tool.delay_given /\ tool.delay_ms = 20
    /\ Len(tool.chunks) = 50 /\ tool.chunks[50] = 49
    /\ tool.waits[1] = 1000 /\ tool.slept_us = 50000

Holders == {i \in DOMAIN wk : wk[i].pc \in {"admitted", "calling", "backoff"}}
BackingOff == {i \in DOMAIN wk : wk[i].pc = "backoff"}
Spawned == mainPc \notin {"start", "dispatch"}

\* C19: a retry worker keeps its permit from its admission to its terminal
\* outcome, backoff sleeps included: the workers that are admitted, calling
\* or backing off plus the free permits always number C, so at most C workers
\* attempt or back off; a waiting worker leaves the line only in a step in
\* which a worker that held a permit reaches its terminal outcome, never
\* while C workers are backing off; a worker in backoff stays a holder until
\* it succeeds or is exhausted; after the join all C permits are free and
\* nobody waits.
C19_SlotHeldThroughBackoff ==
    /\ []((req.scenario = "retry" /\ Spawned) =>
            /\ Cardinality(Holders) + sem = req.concurrency
            /\ Cardinality(Calling \cup BackingOff) <= req.concurrency
            /\ Cardinality(BackingOff) = req.concurrency =>
                  (sem = 0 /\ \A i \in DOMAIN wk : wk[i].pc # "admitted")
            /\ mainPc \in {"checkpoint", "done"} =>
                  (sem = req.concurrency /\ waiters = <<>> /\ Holders = {}))
    /\ [][(req.scenario = "retry" /\ Spawned) =>
            /\ \A i \in DOMAIN wk :
                  (wk[i].pc = "waiting" /\ wk'[i].pc # "waiting") =>
                     /\ wk'[i].pc = "admitted"
                     /\ Cardinality(BackingOff) < req.concurrency
                     /\ \E j \in Calling : wk'[j].pc \in {"succeeded", "exhausted"}
            /\ \A i \in BackingOff : wk'[i].pc \in {"backoff", "calling"}]_vars

\* C19 witness: with two permits, two workers are in their backoff sleep
\* while a third waits in line and no permit is free
C19_Witness ==
    /\ req.scenario = "retry" /\ req.concurrency = 2
    /\ Cardinality(BackingOff) = 2 /\ sem = 0
    /\ \E i \in DOMAIN wk : wk[i].pc = "waiting"

Final(i) == wk[i].pc \in {"done", "failed", "succeeded", "exhausted"}
AtRest == mainPc = "done" /\ DOMAIN wk = 0..(req.fanout - 1) /\ \A i \in DOMAIN wk : Final(i)
NeverAdmitted ==
    /\ \A i \in DOMAIN wk : wk[i].pc \in {"new", "waiting"}
    /\ mainPc \notin {"checkpoint", "done"} /\ result = "none"

\* C20 as stated: with C >= 1, once fan-out or retry-storm has come to rest
\* every worker is done, succeeded or exhausted and the join, the checkpoint
\* and the run have completed; with C = 0 and fanout >= 1 no worker is ever
\* admitted and the run never completes.
C20_AllWorkersComplete ==
    /\ (Gated /\ req.concurrency >= 1 /\ AtRest) =>
          /\ \A i \in DOMAIN wk : wk[i].pc \in {"done", "succeeded", "exhausted"}
          /\ Checkpoints # {} /\ result = "ok"
    /\ (Gated /\ req.concurrency = 0 /\ req.fanout >= 1) => NeverAdmitted

\* C20 amended: with C >= 1 and fair scheduling every fan-out or retry-storm
\* run comes to rest for good with the handler done and every launched worker
\* admitted and terminal (done or failed in fan-out, succeeded or exhausted
\* in retry-storm); the handler is done with result ok and one checkpoint
\* exactly when no worker raised, which is always so in retry-storm, and with
\* an error and no checkpoint when a fan-out worker raised; with C = 0 and
\* fanout >= 1 no worker is ever admitted and the run never completes.
C20_Termination ==
    /\ (Gated /\ req.concurrency >= 1) => <>[]AtRest
    /\ []((Gated /\ req.concurrency >= 1 /\ mainPc = "done") =>
            IF SomeRaised(wk)
            THEN req.scenario = "fanout" /\ result = "error" /\ Checkpoints = {}
            ELSE /\ result = "ok" /\ Cardinality(Checkpoints) = 1
                 /\ \A i \in DOMAIN wk : wk[i].pc \in {"done", "succeeded", "exhausted"})
    /\ []((Gated /\ req.concurrency = 0 /\ req.fanout >= 1) => NeverAdmitted)

\* C20 witness: a fan-out of three through a gate of one has come to rest:
\* every worker was admitted in turn and is done, the checkpoint is written
C20_Witness ==
    /\ endpoint = "run" /\ req.scenario = "fanout"
    /\ req.fanout = 3 /\ req.concurrency = 1
    /\ AtRest /\ result = "ok"
    /\ \A i \in DOMAIN wk : wk[i].pc = "done"
    /\ \E c \in Checkpoints : ~spans[c].open
====
